---- MODULE Spec2Model ----
(***************************************************************************)
(* The YOLO detection head of sensenet (sensenet/models/bounding_box.py):  *)
(*   - BoxLocator.call: thresholding and per-class greedy non-maximum      *)
(*     suppression over the candidate boxes of all scales (Spec);          *)
(*   - branch_head: the reshape of one raw feature tensor (SpecDecode);    *)
(*   - YoloTail.call and the pairing of its branch outputs with the        *)
(*     anchor sets in BoxLocator.call (SpecTail).                          *)
(* Scores are integer levels and IoU thresholds are exact fractions, so    *)
(* every comparison of the code is an exact comparison here.               *)
(***************************************************************************)
EXTENDS Integers, Sequences, FiniteSets

VARIABLES
    pc,             \* position of the modelled component
    nclasses,       \* BoxLocator._nclasses / num_classes of branch_head
    threshold,      \* BoxLocator._threshold
    iou_threshold,  \* BoxLocator._iou_threshold, a fraction <<num, den>>
    boxes,          \* BoxLocator.call: boxes after tf.concat (line 138)
    box_scores,     \* BoxLocator.call: box_scores after tf.concat (line 139)
    out,            \* BoxLocator.call: the returned triple
    network,        \* the network handed to box_detector
    yolo_tail,      \* YoloTail: _trunk, _concatenations, _branches
    anchors,        \* BoxLocator._anchors
    outputs,        \* YoloTail.call: outputs
    next_inputs,    \* YoloTail.call: next_inputs
    trunk_i,        \* YoloTail.call: the loop index i over the trunk
    features,       \* the list returned by YoloTail.call
    pairs,          \* BoxLocator.call: the (features, anchors) pairs decoded
    feats_shape,    \* branch_head: the shape of feats, <<batch, H, W, C>>
    nas,            \* branch_head: len(anchors)
    decoded         \* branch_head: the outcome of the reshape at line 33

locVars == <<threshold, iou_threshold, boxes, box_scores, out>>

tailVars ==
    <<network, yolo_tail, anchors, outputs, next_inputs, trunk_i, features,
      pairs>>

decVars == <<feats_shape, nas, decoded>>

vars == <<pc, nclasses, locVars, tailVars, decVars>>

----------------------------------------------------------------------------
(* Bounds and input domains *)

\* largest number of candidate boxes (rows of boxes / box_scores) in one call
MaxCand == 3

\* sensenet.constants.MAX_BOUNDING_BOXES, scaled down: max_output_size of
\* every per-class suppression pass
MAX_BOUNDING_BOXES == 2

\* candidate boxes <<y_min, x_min, y_max, x_max>>: IoU of the first two and of
\* the last two is 1/3, the first and the last only touch (IoU 0)
BoxSet == { <<0, 0, 2, 1>>, <<1, 0, 3, 1>>, <<2, 0, 4, 1>> }

\* score levels of box_scores[i, c]
Scores == 0 .. 2

\* the rows box_scores[i, :] of a call with nc classes: every level for
\* class 0, the lowest and the highest level for the classes after it
ScoreRows(nc) ==
    { r \in [1 .. nc -> Scores] : \A c \in 2 .. nc : r[c] \in { 0, 2 } }

\* values of bounding_box_threshold
Thresholds == { 1, 2 }

\* values of iou_threshold, as <<numerator, denominator>>
IouThresholds == { <<1, 4>>, <<1, 3>> }

\* values of number_of_classes(model)
ClassCounts == { 1, 2 }

----------------------------------------------------------------------------
(* tf.image.non_max_suppression, as called at line 154 *)

Min2(a, b) == IF a < b THEN a ELSE b

Max2(a, b) == IF a > b THEN a ELSE b

\* area of a box <<y1, x1, y2, x2>>
Area(b) == (b[3] - b[1]) * (b[4] - b[2])

\* area of the overlap of two boxes
IntersectionArea(a, b) ==
    Max2(Min2(a[3], b[3]) - Max2(a[1], b[1]), 0)
        * Max2(Min2(a[4], b[4]) - Max2(a[2], b[2]), 0)

\* area of the union of two boxes
UnionArea(a, b) == Area(a) + Area(b) - IntersectionArea(a, b)

\* the overlap test with the union taken as the sum of the two areas
IOUGreaterSumOfAreas(a, b, thr) ==
    /\ Area(a) > 0 /\ Area(b) > 0
    /\ IntersectionArea(a, b) * thr[2] > thr[1] * (Area(a) + Area(b))

\* IoU(a, b) > thr, the suppression test of the kernel: strictly greater,
\* and never true for a box of no area
IOUGreaterThanThreshold(a, b, thr) ==
    /\ Area(a) > 0 /\ Area(b) > 0
    /\ IntersectionArea(a, b) * thr[2] > thr[1] * UnionArea(a, b)

\* the candidate taken first from S: the lowest score
NextCandidateAscending(c_scores, S) ==
    CHOOSE i \in S : \A j \in S :
        \/ c_scores[i] < c_scores[j]
        \/ (c_scores[i] = c_scores[j] /\ i <= j)

\* the candidate taken first from S: highest score, the later index on a tie
NextCandidateLastOnTie(c_scores, S) ==
    CHOOSE i \in S : \A j \in S :
        \/ c_scores[i] > c_scores[j]
        \/ (c_scores[i] = c_scores[j] /\ i >= j)

\* the candidate taken first from S: the head of the kernel's priority
\* queue, highest score first and the lower index on equal scores
NextCandidate(c_scores, S) ==
    CHOOSE i \in S : \A j \in S :
        \/ c_scores[i] > c_scores[j]
        \/ (c_scores[i] = c_scores[j] /\ i <= j)

\* whether the pass goes on with sel already selected: one more than the cap
MoreWantedOffByOne(sel, max_boxes) == Len(sel) <= max_boxes

\* whether the pass goes on: with no cap at all
MoreWantedUncapped(sel, max_boxes) == TRUE

\* whether the pass goes on with sel already selected (max_output_size)
MoreWanted(sel, max_boxes) == Len(sel) < max_boxes

RECURSIVE NmsLoop(_, _, _, _, _, _)
\* the greedy loop over the candidates S not yet looked at; sel is the
\* sequence of indices selected so far
NmsLoop(c_boxes, c_scores, max_boxes, iou_t, S, sel) ==
    IF S = {} \/ ~MoreWanted(sel, max_boxes) THEN sel
    ELSE LET i == NextCandidate(c_scores, S)
             suppressed == \E k \in 1 .. Len(sel) :
                 IOUGreaterThanThreshold(c_boxes[i], c_boxes[sel[k]], iou_t)
         IN NmsLoop(c_boxes, c_scores, max_boxes, iou_t, S \ {i},
                    IF suppressed THEN sel ELSE Append(sel, i))

\* tf.image.non_max_suppression(boxes, scores, max_output_size,
\* iou_threshold): the selected indices into c_boxes, in selection order
non_max_suppression(c_boxes, c_scores, max_boxes, iou_t) ==
    NmsLoop(c_boxes, c_scores, max_boxes, iou_t, 1 .. Len(c_boxes), << >>)

----------------------------------------------------------------------------
(* BoxLocator.call, lines 141-166 *)

\* the keep-mask with the comparison turned round
maskFlipped(scores, t) ==
    [i \in 1 .. Len(scores) |->
        [c \in 1 .. Len(scores[i]) |-> scores[i][c] <= t]]

\* mask = box_scores >= self._threshold; class c is column c + 1
mask(scores, t) ==
    [i \in 1 .. Len(scores) |->
        [c \in 1 .. Len(scores[i]) |-> scores[i][c] >= t]]

RECURSIVE boolean_mask(_, _)
\* tf.boolean_mask: the entries of seq whose mask entry is true, in order
boolean_mask(seq, m) ==
    IF seq = << >> THEN << >>
    ELSE IF m[1] THEN << seq[1] >> \o boolean_mask(Tail(seq), Tail(m))
         ELSE boolean_mask(Tail(seq), Tail(m))

\* tf.gather: the entries of seq at the positions idx
gather(seq, idx) == [k \in 1 .. Len(idx) |-> seq[idx[k]]]

\* column c of a two-dimensional array (box_scores[:, c], mask[:, c])
column(arr, c) == [i \in 1 .. Len(arr) |-> arr[i][c + 1]]

\* the class labels without the multiplication by c
classes_ones(c_scores, c) == [k \in 1 .. Len(c_scores) |-> 1]

\* tf.ones_like(c_scores, tf.int32) * c
classes_of(c_scores, c) == [k \in 1 .. Len(c_scores) |-> c]

\* one iteration of the loop over the classes (lines 149-158); cand is the
\* row of boxes / box_scores each surviving detection comes from
class_pass(bxs, scs, t, iou_t, c) ==
    LET m == column(mask(scs, t), c)
        c_boxes == boolean_mask(bxs, m)
        c_scores == boolean_mask(column(scs, c), m)
        c_cand == boolean_mask([i \in 1 .. Len(bxs) |-> i], m)
        nms_index == non_max_suppression(c_boxes, c_scores,
                                         MAX_BOUNDING_BOXES, iou_t)
    IN [ boxes |-> gather(c_boxes, nms_index),
         scores |-> gather(c_scores, nms_index),
         classes |-> classes_of(gather(c_scores, nms_index), c),
         cand |-> gather(c_cand, nms_index) ]

RECURSIVE class_loop(_, _, _, _, _, _)
\* for c in range(self._nclasses): the lists boxes_, scores_, classes_
\* concatenated (tf.concat(..., 0)) over the classes c .. nc - 1
class_loop(bxs, scs, t, iou_t, nc, c) ==
    IF c >= nc THEN [ boxes |-> << >>, scores |-> << >>,
                      classes |-> << >>, cand |-> << >> ]
    ELSE LET p == class_pass(bxs, scs, t, iou_t, c)
             r == class_loop(bxs, scs, t, iou_t, nc, c + 1)
         IN [ boxes |-> p.boxes \o r.boxes,
              scores |-> p.scores \o r.scores,
              classes |-> p.classes \o r.classes,
              cand |-> p.cand \o r.cand ]

\* tf.expand_dims(x, 0): a leading batch dimension of length 1
expand_dims(x) == << x >>

\* the value returned by BoxLocator.call for the candidates (bxs, scs)
locate(bxs, scs, t, iou_t, nc) ==
    LET r == class_loop(bxs, scs, t, iou_t, nc, 0)
    IN [ boxes |-> expand_dims(r.boxes),
         scores |-> expand_dims(r.scores),
         classes |-> expand_dims(r.classes),
         cand |-> expand_dims(r.cand) ]

NoOutput == [ boxes |-> << >>, scores |-> << >>,
              classes |-> << >>, cand |-> << >> ]

\* the variables of YoloTail while the model is of another component
TailIdle ==
    /\ network = << >> /\ yolo_tail = << >> /\ anchors = << >>
    /\ outputs = << >> /\ next_inputs = << >> /\ trunk_i = 0
    /\ features = << >> /\ pairs = << >>

\* the variables of branch_head while the model is of another component
DecodeIdle == feats_shape = << >> /\ nas = 0 /\ decoded = << >>

\* the variables of the suppression while the model is of another component
LocatorIdle ==
    /\ threshold = 0 /\ iou_threshold = << >>
    /\ boxes = << >> /\ box_scores = << >> /\ out = NoOutput

\* BoxLocator.__init__: the configuration read from extras and the model
Init ==
    /\ TailIdle /\ DecodeIdle
    /\ pc = "constructed"
    /\ nclasses \in ClassCounts
    /\ threshold \in Thresholds
    /\ iou_threshold \in IouThresholds
    /\ boxes = << >>
    /\ box_scores = << >>
    /\ out = NoOutput

\* BoxLocator.call on one image: the decoded candidates of all scales,
\* then thresholding, suppression per class and concatenation
call ==
    /\ pc = "constructed"
    /\ \E n \in 0 .. MaxCand :
         \E bxs \in [1 .. n -> BoxSet] :
           \E scs \in [1 .. n -> ScoreRows(nclasses)] :
             /\ boxes' = bxs
             /\ box_scores' = scs
             /\ out' = locate(bxs, scs, threshold, iou_threshold, nclasses)
    /\ pc' = "returned"
    /\ UNCHANGED <<nclasses, threshold, iou_threshold, tailVars, decVars>>

Next == call

Spec == Init /\ [][Next]_vars

----------------------------------------------------------------------------
(* The detections returned by BoxLocator.call *)

\* the positions of the returned detections
Dets == 1 .. Len(out.scores[1])

\* the positions of the returned detections labelled c
DetsOf(c) == { k \in Dets : out.classes[1][k] = c }

\* the candidates whose score for class c reaches the threshold
Passing(c) == { i \in 1 .. Len(boxes) : box_scores[i][c + 1] >= threshold }

ClassIds == 0 .. nclasses - 1

\* pairs of distinct returned detections with the same label
SameClassPairs ==
    { p \in Dets \X Dets : p[1] # p[2]
                           /\ out.classes[1][p[1]] = out.classes[1][p[2]] }

\* C1, as claimed: every two distinct surviving boxes of one class have an
\* IoU strictly below iou_threshold.
C1_StrictNonOverlap ==
    pc = "returned" =>
        \A p \in SameClassPairs :
            LET a == out.boxes[1][p[1]]
                b == out.boxes[1][p[2]]
            IN IntersectionArea(a, b) * iou_threshold[2]
                   < iou_threshold[1] * UnionArea(a, b)

\* C1, amended: every two distinct surviving boxes of one class have an IoU
\* of at most iou_threshold (a box is discarded only when its IoU with a kept
\* box is strictly greater than the threshold).
C1_NonOverlap ==
    pc = "returned" =>
        \A p \in SameClassPairs :
            LET a == out.boxes[1][p[1]]
                b == out.boxes[1][p[2]]
            IN IntersectionArea(a, b) * iou_threshold[2]
                   <= iou_threshold[1] * UnionArea(a, b)

\* C1 witness: a class keeps two boxes whose IoU is exactly iou_threshold,
\* after a candidate of that class with a higher score than the second of
\* them was discarded by the suppression.
C1_Witness ==
    /\ pc = "returned"
    /\ \E p \in SameClassPairs :
         LET a == out.boxes[1][p[1]]
             b == out.boxes[1][p[2]]
             c == out.classes[1][p[1]]
         IN /\ p[1] < p[2]
            /\ IntersectionArea(a, b) * iou_threshold[2]
                   = iou_threshold[1] * UnionArea(a, b)
            /\ \E i \in Passing(c) :
                 /\ \A k \in DetsOf(c) : out.cand[1][k] # i
                 /\ box_scores[i][c + 1] > out.scores[1][p[2]]

\* C2, as claimed: the returned sequences hold at most MAX_BOUNDING_BOXES
\* detections, all classes together.
C2_TotalCap ==
    pc = "returned" => Len(out.scores[1]) <= MAX_BOUNDING_BOXES

\* C2, amended: the returned sequences hold at most MAX_BOUNDING_BOXES
\* detections for each class that has a candidate at or above the
\* threshold, so at most MAX_BOUNDING_BOXES only when one class has any.
C2_CapPerPassingClass ==
    pc = "returned" =>
        Len(out.scores[1]) <= MAX_BOUNDING_BOXES
            * Cardinality({ c \in ClassIds : Passing(c) # {} })

\* C2 witness: the cap binds in one class and another class adds detections
\* on top of it.
C2_Witness ==
    /\ pc = "returned"
    /\ Len(out.scores[1]) > MAX_BOUNDING_BOXES
    /\ \E c \in ClassIds : /\ Cardinality(Passing(c)) > MAX_BOUNDING_BOXES
                           /\ Cardinality(DetsOf(c)) = MAX_BOUNDING_BOXES

\* C3: no class has more than MAX_BOUNDING_BOXES detections, and the total
\* is at most num_classes * MAX_BOUNDING_BOXES.
C3_CapLaw ==
    pc = "returned" =>
        /\ \A c \in ClassIds : Cardinality(DetsOf(c)) <= MAX_BOUNDING_BOXES
        /\ Len(out.scores[1]) <= nclasses * MAX_BOUNDING_BOXES

\* C3 witness: more than MAX_BOUNDING_BOXES candidates of a class pass the
\* threshold and none of them overlaps another beyond the IoU threshold.
C3_Witness ==
    /\ pc = "returned"
    /\ \E c \in ClassIds :
         /\ Cardinality(Passing(c)) > MAX_BOUNDING_BOXES
         /\ \A i, j \in Passing(c) :
              i # j => ~IOUGreaterThanThreshold(boxes[i], boxes[j],
                                                iou_threshold)
         /\ Cardinality(DetsOf(c)) = MAX_BOUNDING_BOXES

\* the number of detections returned for the same candidates with the
\* confidence threshold t
CountAt(t) ==
    Len(locate(boxes, box_scores, t, iou_threshold, nclasses).scores[1])

\* C4: for the same candidates and IoU threshold, a call with a threshold
\* t1 <= the configured one returns at least as many detections.
C4_ThresholdMonotone ==
    pc = "returned" =>
        \A t1 \in Thresholds :
            t1 <= threshold => Len(out.scores[1]) <= CountAt(t1)

\* C4 witness: raising the threshold removes detections but not all.
C4_Witness ==
    /\ pc = "returned"
    /\ Len(out.scores[1]) > 0
    /\ \E t1 \in Thresholds :
         t1 < threshold /\ Len(out.scores[1]) < CountAt(t1)

\* C5: the detections are in ascending class order; inside a class the
\* scores do not increase, and equal scores keep the candidates' order.
C5_Ordering ==
    pc = "returned" =>
        \A k \in Dets : \A l \in Dets :
            k < l =>
              \/ out.classes[1][k] < out.classes[1][l]
              \/ /\ out.classes[1][k] = out.classes[1][l]
                 /\ \/ out.scores[1][k] > out.scores[1][l]
                    \/ /\ out.scores[1][k] = out.scores[1][l]
                       /\ out.cand[1][k] < out.cand[1][l]

\* C5 witness: two classes are returned; one class has two detections of
\* equal score and the candidate of higher score comes later in the input.
C5_Witness ==
    /\ pc = "returned"
    /\ \E k, l \in Dets : out.classes[1][k] < out.classes[1][l]
    /\ \E p \in SameClassPairs : out.scores[1][p[1]] = out.scores[1][p[2]]
    /\ \E p \in SameClassPairs :
         /\ p[1] < p[2]
         /\ out.cand[1][p[1]] > out.cand[1][p[2]]

\* whether no candidate reaches the threshold in any class
NothingPasses == \A c \in ClassIds : Passing(c) = {}

\* C6: when no candidate reaches the threshold in any class, the call
\* returns, and boxes, scores and classes each hold a batch of length 1
\* with no detection in it.
C6_EmptyPath ==
    (pc = "returned" /\ NothingPasses) =>
        /\ Len(out.boxes) = 1 /\ out.boxes[1] = << >>
        /\ Len(out.scores) = 1 /\ out.scores[1] = << >>
        /\ Len(out.classes) = 1 /\ out.classes[1] = << >>

\* C6 witness: a call with candidates, none of which reaches the threshold.
C6_Witness ==
    /\ pc = "returned"
    /\ Len(boxes) = MaxCand
    /\ NothingPasses
    /\ \E i \in 1 .. Len(boxes) : \E c \in ClassIds : box_scores[i][c + 1] > 0

\* C10: every detection is a candidate with its box, its score for the
\* detection's class, at or above the threshold; no (candidate, class) pair
\* is returned twice; the three sequences have one length.
C10_Soundness ==
    pc = "returned" =>
        /\ Len(out.boxes[1]) = Len(out.scores[1])
        /\ Len(out.classes[1]) = Len(out.scores[1])
        /\ \A k \in Dets :
             LET i == out.cand[1][k]
                 c == out.classes[1][k]
             IN /\ i \in 1 .. Len(boxes)
                /\ c \in ClassIds
                /\ out.boxes[1][k] = boxes[i]
                /\ out.scores[1][k] = box_scores[i][c + 1]
                /\ box_scores[i][c + 1] >= threshold
        /\ \A k, l \in Dets :
             (out.cand[1][k] = out.cand[1][l]
                 /\ out.classes[1][k] = out.classes[1][l]) => k = l

\* C10 witness: one candidate is returned under two classes, with a score
\* equal to the threshold in one of them.
C10_Witness ==
    /\ pc = "returned"
    /\ \E k, l \in Dets :
         /\ out.cand[1][k] = out.cand[1][l]
         /\ out.classes[1][k] # out.classes[1][l]
         /\ out.scores[1][k] = threshold
         /\ out.scores[1][l] > threshold

----------------------------------------------------------------------------
(* YoloTail (lines 50-87), and the pairing of its outputs with the anchor  *)
(* sets in BoxLocator (lines 97, 133-136), as wired by box_detector        *)

\* largest number of trunk layers, network['layers'][:-1]
MaxLayers == 3

\* largest number of output branches, and of anchor sets
MaxBranches == 2

\* a tensor is the term that computes it: the image, or the result of the
\* layer at position pos of the trunk or of the path of branch pos, applied
\* to args (one tensor, or the list handed to a concatenation)
Image == [ kind |-> "image", pos |-> 0, args |-> << >> ]

\* layer(x) for the layer built at position pos of the trunk
trunk_layer(pos, args) == [ kind |-> "trunk", pos |-> pos, args |-> args ]

\* propagate(layers, x) for the convolution path of branch pos
propagate(pos, x) == [ kind |-> "branch", pos |-> pos, args |-> << x >> ]

\* list[j] of Python for j >= 0
at(list, j) == list[j + 1]

\* the input lists a concatenation at position pos may declare: one or two
\* indices of earlier layers
InputLists(pos) ==
    { << a >> : a \in 0 .. pos - 1 }
        \cup { << a, b >> : a \in 0 .. pos - 1, b \in 0 .. pos - 1 }

\* the layer specifications possible at position pos of the trunk
LayerSpecs(pos) ==
    { [ type |-> "convolution", inputs |-> << >> ] }
        \cup { [ type |-> "concatenate", inputs |-> l ] : l \in InputLists(pos) }

\* the trunks of n layers
Trunks(n) ==
    { t \in [1 .. n -> UNION { LayerSpecs(q) : q \in 0 .. n - 1 }] :
        \A q \in 1 .. n : t[q] \in LayerSpecs(q - 1) }

\* the networks: a trunk, the type of the last layer, the source index of
\* each output branch, and the anchor sets get_anchors finds for it
Networks ==
    { [ layers |-> Append(t, [ type |-> last, inputs |-> << >> ]),
        output_branches |-> b,
        anchors |-> [a \in 1 .. k |-> a] ] :
        t \in UNION { Trunks(n) : n \in 1 .. MaxLayers },
        last \in { "yolo_output_branches", "convolution" },
        b \in UNION { [1 .. m -> 0 .. MaxLayers - 1] : m \in 1 .. MaxBranches },
        k \in 1 .. MaxBranches }

\* a network whose branches read layers the trunk has
WellFormed(net) ==
    \A b \in 1 .. Len(net.output_branches) :
        net.output_branches[b] < Len(net.layers) - 1

\* YoloTail.__init__ after the assertion: the trunk, the concatenations by
\* position, and the branches
YoloTail_init(net) ==
    LET n == Len(net.layers) - 1
    IN [ _trunk |-> [q \in 1 .. n |-> net.layers[q].type],
         _concatenations |->
             [q \in { r \in 0 .. n - 1 : at(net.layers, r).type = "concatenate" }
                 |-> at(net.layers, q).inputs],
         _branches |-> net.output_branches ]

\* next_inputs after a pass of the loop in which a concatenation keeps the
\* previous value
carry_not_after_concat(tail, pos, result, prev) ==
    IF pos \in DOMAIN tail._concatenations THEN prev ELSE result

\* next_inputs after a pass of the loop: the layer's result (lines 81, 83)
carry(tail, pos, result, prev) == result

\* what the layer at position pos is applied to (lines 79-83)
layer_args(tail, pos, outs, nxt) ==
    IF pos \in DOMAIN tail._concatenations
    THEN LET inputs == tail._concatenations[pos]
         IN [k \in 1 .. Len(inputs) |-> at(outs, inputs[k])]
    ELSE << nxt >>

\* zip(a, b) of Python: as long as the shorter of the two
zip(a, b) ==
    [k \in 1 .. (IF Len(a) < Len(b) THEN Len(a) ELSE Len(b)) |-> << a[k], b[k] >>]

InitTail ==
    /\ LocatorIdle /\ DecodeIdle /\ nclasses = 1
    /\ pc = "network"
    /\ network \in { net \in Networks : WellFormed(net) }
    /\ yolo_tail = << >> /\ anchors = << >>
    /\ outputs = << >> /\ next_inputs = << >> /\ trunk_i = 0
    /\ features = << >> /\ pairs = << >>

\* box_detector, lines 174-175, when the assertion of YoloTail.__init__ fails
construct_fails ==
    /\ pc = "network"
    /\ network.layers[Len(network.layers)].type # "yolo_output_branches"
    /\ pc' = "assertion_error"
    /\ UNCHANGED <<nclasses, locVars, tailVars, decVars>>

\* box_detector, lines 174-175: YoloTail(network) and BoxLocator(network, ...)
construct ==
    /\ pc = "network"
    /\ network.layers[Len(network.layers)].type = "yolo_output_branches"
    /\ yolo_tail' = YoloTail_init(network)
    /\ anchors' = network.anchors
    /\ pc' = "built"
    /\ UNCHANGED <<nclasses, locVars, decVars, network, outputs, next_inputs,
                   trunk_i, features, pairs>>

\* YoloTail.call, lines 75-76
tail_call ==
    /\ pc = "built"
    /\ outputs' = << >>
    /\ next_inputs' = Image
    /\ trunk_i' = 0
    /\ pc' = "trunk"
    /\ UNCHANGED <<nclasses, locVars, decVars, network, yolo_tail, anchors,
                   features, pairs>>

\* YoloTail.call, lines 78-85: one pass of the loop over the trunk
trunk_step ==
    /\ pc = "trunk"
    /\ trunk_i < Len(yolo_tail._trunk)
    /\ LET result == trunk_layer(trunk_i,
                         layer_args(yolo_tail, trunk_i, outputs, next_inputs))
       IN /\ next_inputs' = carry(yolo_tail, trunk_i, result, next_inputs)
          /\ outputs' = Append(outputs, next_inputs')
    /\ trunk_i' = trunk_i + 1
    /\ UNCHANGED <<pc, nclasses, locVars, decVars, network, yolo_tail, anchors,
                   features, pairs>>

\* YoloTail.call, line 87: the branches
tail_return ==
    /\ pc = "trunk"
    /\ trunk_i = Len(yolo_tail._trunk)
    /\ features' = [b \in 1 .. Len(yolo_tail._branches) |->
                       propagate(b - 1, at(outputs, yolo_tail._branches[b]))]
    /\ pc' = "features"
    /\ UNCHANGED <<nclasses, locVars, decVars, network, yolo_tail, anchors,
                   outputs, next_inputs, trunk_i, pairs>>

\* BoxLocator.call, lines 133-136: the loop over zip(inputs, self._anchors)
locator_zip ==
    /\ pc = "features"
    /\ pairs' = zip(features, anchors)
    /\ pc' = "decoded"
    /\ UNCHANGED <<nclasses, locVars, decVars, network, yolo_tail, anchors,
                   outputs, next_inputs, trunk_i, features>>

NextTail ==
    \/ construct_fails
    \/ construct
    \/ tail_call
    \/ trunk_step
    \/ tail_return
    \/ locator_zip

SpecTail == InitTail /\ [][NextTail]_vars

\* the number of trunk layers of the network
TrunkLen == Len(network.layers) - 1

\* C9: after the loop of YoloTail.call there is one stored output per trunk
\* layer; a concatenation is applied to the stored outputs at its declared
\* indices, in declared order; any other layer is applied to the stored
\* output of the position before it (the image at position 0); each branch
\* is applied to the stored output at its source index.
C9_TrunkDataFlow ==
    pc \in { "features", "decoded" } =>
        /\ Len(outputs) = TrunkLen
        /\ \A q \in 0 .. TrunkLen - 1 :
             LET spec == at(network.layers, q)
                 consumed ==
                     IF spec.type = "concatenate"
                     THEN [k \in 1 .. Len(spec.inputs) |->
                              at(outputs, spec.inputs[k])]
                     ELSE IF q = 0 THEN << Image >>
                          ELSE << at(outputs, q - 1) >>
             IN at(outputs, q)
                    = [ kind |-> "trunk", pos |-> q, args |-> consumed ]
        /\ Len(features) = Len(network.output_branches)
        /\ \A b \in 1 .. Len(features) :
             features[b]
                 = [ kind |-> "branch", pos |-> b - 1,
                     args |-> << at(outputs, network.output_branches[b]) >> ]

\* C9 witness: a trunk of three layers whose middle layer is a
\* concatenation and whose last layer is not, with a branch that reads a
\* layer other than the last.
C9_Witness ==
    /\ pc = "features"
    /\ TrunkLen = 3
    /\ at(network.layers, 1).type = "concatenate"
    /\ at(network.layers, 2).type = "convolution"
    /\ \E b \in 1 .. Len(features) : network.output_branches[b] < 2

\* C7, as claimed: when the number of anchor sets differs from the number of
\* output branches the construction fails, and a call decodes one pair per
\* branch and per anchor set.
C7_MismatchIsFatal ==
    /\ pc \notin { "network", "assertion_error" } =>
           Len(network.anchors) = Len(network.output_branches)
    /\ pc = "decoded" =>
           (Len(pairs) = Len(features) /\ Len(pairs) = Len(anchors))

----------------------------------------------------------------------------
(* branch_head (lines 17-47): the shapes *)

\* largest batch size of a raw feature tensor
MaxBatch == 2

\* largest grid height and width of a raw feature tensor
MaxGrid == 2

\* largest channel depth of a raw feature tensor
MaxChannels == 14

\* largest number of anchors of one anchor set
MaxAnchors == 2

RECURSIVE NumElements(_)
\* the number of elements of a tensor of the given shape
NumElements(shape) ==
    IF shape = << >> THEN 1 ELSE shape[1] * NumElements(Tail(shape))

\* tf.reshape(tensor, [-1] + dims): the leading dimension is inferred from
\* the number of elements, which must be a multiple of the product of dims
reshape(shape, dims) ==
    IF NumElements(shape) % NumElements(dims) = 0
    THEN [ ok |-> TRUE,
           shape |-> << NumElements(shape) \div NumElements(dims) >> \o dims ]
    ELSE [ ok |-> FALSE, shape |-> << >> ]

\* the last dimension without the objectness entry
box_params_without_confidence(num_classes) == num_classes + 4

\* the last dimension of the reshaped tensor (line 33): x, y, w, h,
\* objectness and one entry per class
box_params(num_classes) == num_classes + 5

\* branch_head, lines 18-33: the shape of feats after the reshape
branch_head_reshape(shape, n_anchors, num_classes) ==
    LET y_shape == shape[2]
        x_shape == shape[3]
    IN reshape(shape, << y_shape, x_shape, n_anchors, box_params(num_classes) >>)

InitDecode ==
    /\ LocatorIdle /\ TailIdle
    /\ pc = "feats"
    /\ nclasses \in ClassCounts
    /\ nas \in 1 .. MaxAnchors
    /\ feats_shape \in (1 .. MaxBatch) \X (1 .. MaxGrid) \X (1 .. MaxGrid)
                           \X (1 .. MaxChannels)
    /\ decoded = << >>

\* branch_head(feats, anchors, num_classes, input_shape, False) up to the
\* reshape; the slices and element-wise operations after it keep the shape
branch_head ==
    /\ pc = "feats"
    /\ decoded' = branch_head_reshape(feats_shape, nas, nclasses)
    /\ pc' = IF decoded'.ok THEN "head_returned" ELSE "shape_error"
    /\ UNCHANGED <<nclasses, locVars, tailVars, feats_shape, nas>>

NextDecode == branch_head

SpecDecode == InitDecode /\ [][NextDecode]_vars

\* the channel depth the claim asks for
Channels == nas * (nclasses + 5)

\* C8, as claimed: decoding succeeds only if the channel depth C is exactly
\* nas * (num_classes + 5), and fails with a shape error for every other C.
C8_ExactChannels ==
    /\ pc = "head_returned" => feats_shape[4] = Channels
    /\ (pc # "feats" /\ feats_shape[4] # Channels) => pc = "shape_error"

\* C8, amended: decoding succeeds exactly when batch * C is a multiple of
\* nas * (num_classes + 5), and then yields batch * C / (nas * (num_classes
\* + 5)) grids of nas boxes per cell; otherwise it fails with a shape error.
C8_MultipleOfChannels ==
    pc # "feats" =>
        LET total == feats_shape[1] * feats_shape[4]
        IN /\ (pc = "head_returned") <=> (total % Channels = 0)
           /\ (pc = "shape_error") <=> (total % Channels # 0)
           /\ pc = "head_returned" =>
                  decoded.shape = << total \div Channels, feats_shape[2],
                                     feats_shape[3], nas, nclasses + 5 >>

\* C8 witness: a tensor of batch 1 whose channel depth is twice
\* nas * (num_classes + 5) is decoded, as two grids.
C8_Witness ==
    /\ pc = "head_returned"
    /\ feats_shape[1] = 1
    /\ feats_shape[4] = 2 * Channels
    /\ decoded.shape[1] = 2

====
